---- MODULE Spec2Model ----
(***************************************************************************)
(* Model of src/app.py: a Dash script that loads unified_gantt_data.csv    *)
(* into a process-wide DataFrame, builds a layout with an equipment        *)
(* dropdown, and serves the callback update_gantt_chart, which filters,    *)
(* renames and sorts the table and builds a plotly timeline figure.        *)
(***************************************************************************)
EXTENDS Integers, Sequences, FiniteSets, TLC

VARIABLES file, pc, error, df, prioridad_colors, unique_equipos, options,
          value, selected_equipment, filtered_df, result, memo, ncalls

vars == <<file, pc, error, df, prioridad_colors, unique_equipos, options,
          value, selected_equipment, filtered_df, result, memo, ncalls>>

(***************************************************************************)
(* Bounds.                                                                 *)
(***************************************************************************)
MaxRows == 2
MaxCalls == 3

(***************************************************************************)
(* Values.  NaN is pandas' missing value, None is Python's None.           *)
(***************************************************************************)
NaN == "<NaN>"
None == "<None>"

CsvColumns == {"EQUIPO", "ACTIVIDAD A EJECUTAR",
               "PERSONA ASIGNADA A LA ACTIVIDAD", "Prioridad",
               "start_time", "end_time"}

\* Cell texts the CSV may hold.  An empty EQUIPO cell is read as NaN.
EquipoCells == {"A", "a", ""}
PersonaCells == {"Ann", "Bob"}
PrioridadCells == {"ALTA", "MEDIA"}
StartCells == {"2024-01-01T08:00", "2024-01-01T09:00", "not-a-date"}
\* The task text and the end time of the i-th row of the file.
TaskCells == <<"Inspect", "Repair", "Lubricate", "Calibrate">>
EndCells == <<"2024-01-01T10:00", "2024-01-01T11:00",
              "2024-01-01T12:00", "2024-01-01T13:00">>

\* Keys the callback may be invoked with.
Keys == {"A", "a", "", None}

RawRow(e, p, pr, st, i) ==
    ("EQUIPO" :> e) @@ ("ACTIVIDAD A EJECUTAR" :> TaskCells[i]) @@
    ("PERSONA ASIGNADA A LA ACTIVIDAD" :> p) @@ ("Prioridad" :> pr) @@
    ("start_time" :> st) @@ ("end_time" :> EndCells[i])

CellChoices == EquipoCells \X PersonaCells \X PrioridadCells \X StartCells

RawTables ==
    UNION { { [i \in 1..n |-> RawRow(f[i][1], f[i][2], f[i][3], f[i][4], i)] :
              f \in [1..n -> CellChoices] } : n \in 0..MaxRows }

Files == {[exists |-> FALSE, rows |-> <<>>]} \cup
         {[exists |-> TRUE, rows |-> rs] : rs \in RawTables}

(***************************************************************************)
(* prioridad_colors                                                        *)
(***************************************************************************)
PrioridadColors == ("ALTA" :> "red") @@ ("MEDIA" :> "orange") @@ ("BAJA" :> "green")

(***************************************************************************)
(* Loading: pd.read_csv and pd.to_datetime.                                *)
(***************************************************************************)
\* Minutes since 2024-01-01T00:00 of the timestamps pd.to_datetime parses.
TimeValue == ("2024-01-01T08:00" :> 480) @@ ("2024-01-01T09:00" :> 540) @@
             ("2024-01-01T10:00" :> 600) @@ ("2024-01-01T11:00" :> 660) @@
             ("2024-01-01T12:00" :> 720) @@ ("2024-01-01T13:00" :> 780)

Parseable(s) == s \in DOMAIN TimeValue

\* read_csv turns an empty cell into NaN.
ReadCell(s) == IF s = "" THEN NaN ELSE s

ReadCsv(f) ==
    [columns |-> CsvColumns,
     rows |-> [i \in 1..Len(f.rows) |->
                 [c \in CsvColumns |-> ReadCell(f.rows[i][c])]]]

\* df[col] = pd.to_datetime(df[col])
ToDatetime(table, col) ==
    [table EXCEPT !.rows =
        [i \in 1..Len(table.rows) |->
            [table.rows[i] EXCEPT ![col] = TimeValue[table.rows[i][col]]]]]

ColumnParseable(table, col) ==
    \A i \in 1..Len(table.rows) : Parseable(table.rows[i][col])

\* pd.DataFrame(): no columns, no rows.
EmptyDataFrame == [columns |-> {}, rows |-> <<>>]

NoResult == [kind |-> "none"]

Init ==
    /\ file \in Files
    /\ pc = "load"
    /\ error = "none"
    /\ df = EmptyDataFrame
    /\ prioridad_colors = PrioridadColors
    /\ unique_equipos = <<>>
    /\ options = <<>>
    /\ value = None
    /\ selected_equipment = None
    /\ filtered_df = <<>>
    /\ result = NoResult
    /\ memo = [k \in Keys |-> NoResult]
    /\ ncalls = 0

startupUnchanged == <<file, prioridad_colors, selected_equipment,
                      filtered_df, result, memo, ncalls>>

\* try: read_csv, to_datetime succeed.
LoadOk ==
    /\ pc = "load"
    /\ file.exists
    /\ ColumnParseable(ReadCsv(file), "start_time")
    /\ ColumnParseable(ReadCsv(file), "end_time")
    /\ df' = ToDatetime(ToDatetime(ReadCsv(file), "start_time"), "end_time")
    /\ pc' = "layout"
    /\ UNCHANGED <<error, unique_equipos, options, value>>
    /\ UNCHANGED startupUnchanged

\* except FileNotFoundError: df = pd.DataFrame()
LoadMissing ==
    /\ pc = "load"
    /\ ~file.exists
    /\ df' = EmptyDataFrame
    /\ pc' = "layout"
    /\ UNCHANGED <<error, unique_equipos, options, value>>
    /\ UNCHANGED startupUnchanged

\* pd.to_datetime raises on an unparseable timestamp; nothing catches it.
LoadMalformed ==
    /\ pc = "load"
    /\ file.exists
    /\ ~(ColumnParseable(ReadCsv(file), "start_time")
         /\ ColumnParseable(ReadCsv(file), "end_time"))
    /\ df' = IF ColumnParseable(ReadCsv(file), "start_time")
             THEN ToDatetime(ReadCsv(file), "start_time")
             ELSE ReadCsv(file)
    /\ pc' = "crashed"
    /\ error' = "ValueError"
    /\ UNCHANGED <<unique_equipos, options, value>>
    /\ UNCHANGED startupUnchanged

(***************************************************************************)
(* Layout: unique_equipos and the dropdown.                                *)
(***************************************************************************)
Contains(s, x) == \E i \in 1..Len(s) : s[i] = x

\* Series.dropna()
DropNa(s) == SelectSeq(s, LAMBDA x : x # NaN)

\* Series.unique(): the distinct values in order of first appearance.
RECURSIVE Unique(_)
Unique(s) ==
    IF s = <<>> THEN <<>>
    ELSE LET u == Unique(SubSeq(s, 1, Len(s) - 1))
             x == s[Len(s)]
         IN  IF Contains(u, x) THEN u ELSE Append(u, x)

Column(rows, col) == [i \in 1..Len(rows) |-> rows[i][col]]

\* Variant: the missing values are not dropped.
UniqueEquiposKeepNa(table) == Unique(Column(table.rows, "EQUIPO"))

\* df['EQUIPO'].dropna().unique()
UniqueEquipos(table) == Unique(DropNa(Column(table.rows, "EQUIPO")))

DropdownOptions(equipos) ==
    [i \in 1..Len(equipos) |-> [label |-> equipos[i], value |-> equipos[i]]]

DropdownValue(equipos) == IF Len(equipos) > 0 THEN equipos[1] ELSE None

LayoutOk ==
    /\ pc = "layout"
    /\ "EQUIPO" \in df.columns
    /\ unique_equipos' = UniqueEquipos(df)
    /\ options' = DropdownOptions(UniqueEquipos(df))
    /\ value' = DropdownValue(UniqueEquipos(df))
    /\ pc' = "running"
    /\ UNCHANGED <<df, error>>
    /\ UNCHANGED startupUnchanged

\* df['EQUIPO'] on a DataFrame without that column raises KeyError.
LayoutKeyError ==
    /\ pc = "layout"
    /\ "EQUIPO" \notin df.columns
    /\ pc' = "crashed"
    /\ error' = "KeyError"
    /\ UNCHANGED <<df, unique_equipos, options, value>>
    /\ UNCHANGED startupUnchanged

(***************************************************************************)
(* update_gantt_chart                                                      *)
(***************************************************************************)
\* `not selected_equipment`
Falsy(k) == k = None \/ k = ""

Lower(x) == IF x = "A" THEN "a" ELSE x

\* Variant: the match ignores case.
FilterRowsIgnoreCase(rows, k) ==
    SelectSeq(rows, LAMBDA r : Lower(r["EQUIPO"]) = Lower(k))

\* df[df['EQUIPO'] == selected_equipment]
FilterRows(rows, k) == SelectSeq(rows, LAMBDA r : r["EQUIPO"] = k)

RenameCol(c) ==
    CASE c = "ACTIVIDAD A EJECUTAR" -> "Task"
      [] c = "start_time" -> "Start"
      [] c = "end_time" -> "Finish"
      [] c = "PERSONA ASIGNADA A LA ACTIVIDAD" -> "Resource"
      [] OTHER -> c

RenameRow(r) ==
    [c \in {RenameCol(d) : d \in DOMAIN r} |->
        r[CHOOSE d \in DOMAIN r : RenameCol(d) = c]]

Rename(rows) == [i \in 1..Len(rows) |-> RenameRow(rows[i])]

\* Lexicographic order of the person names.
StrRank == ("Ann" :> 1) @@ ("Bob" :> 2)

\* a sorts at or before b under by=['Resource', 'Start'].
SortKeyLeq(a, b) ==
    \/ StrRank[a["Resource"]] < StrRank[b["Resource"]]
    \/ /\ a["Resource"] = b["Resource"]
       /\ a["Start"] <= b["Start"]

\* Variant: a row goes before the rows of equal key (an unstable sort).
InsertPositionUnstable(sorted, r) ==
    Cardinality({i \in 1..Len(sorted) : ~SortKeyLeq(r, sorted[i])})

\* Where a row goes among the rows already sorted: after every row whose
\* key is not greater (the sort is stable).
InsertPosition(sorted, r) ==
    Cardinality({i \in 1..Len(sorted) : SortKeyLeq(sorted[i], r)})

InsertSorted(sorted, r) ==
    LET p == InsertPosition(sorted, r)
    IN  SubSeq(sorted, 1, p) \o <<r>> \o SubSeq(sorted, p + 1, Len(sorted))

RECURSIVE SortValues(_)
SortValues(rows) ==
    IF rows = <<>> THEN <<>>
    ELSE InsertSorted(SortValues(SubSeq(rows, 1, Len(rows) - 1)), rows[Len(rows)])

\* Lines 65-76: filter, copy, rename, sort, reset_index.
FilteredDf(table, k) == SortValues(Rename(FilterRows(table.rows, k)))

\* Variant: the filter result is assigned to the process-wide table.
DfFilteredInPlace(table, k) == [table EXCEPT !.rows = FilterRows(table.rows, k)]

\* The process-wide table after a call: the callback only works on a copy.
DfAfterUpdate(table, k) == table

RaisedError(exc) == [kind |-> "error", exc |-> exc]

TraceColor(colors, p) == IF p \in DOMAIN colors THEN colors[p] ELSE "default"

\* px.timeline draws a bar from base = Start over x = Finish - Start, a
\* duration in milliseconds (timestamps here are in minutes).
Bar(r) == [base |-> r["Start"], x |-> (r["Finish"] - r["Start"]) * 60000,
           y |-> r["Resource"], text |-> r["Task"]]

\* One trace per priority, in order of first appearance, holding that
\* priority's rows in view order.
PxTraces(view, colors) ==
    LET names == Unique(Column(view, "Prioridad"))
    IN  [n \in 1..Len(names) |->
            LET mine == SelectSeq(view, LAMBDA r : r["Prioridad"] = names[n])
            IN  [name |-> names[n],
                 color |-> TraceColor(colors, names[n]),
                 bars |-> [i \in 1..Len(mine) |-> Bar(mine[i])],
                 textposition |-> "auto",
                 customdata |-> <<>>]]

\* fig.update_traces(textposition='inside'), then
\* fig.update_traces(hovertemplate=..., customdata=filtered_df[['Finish', 'Prioridad']]):
\* every trace receives the same value.
TraceCustomdata(view, trace) ==
    [i \in 1..Len(view) |-> <<view[i]["Finish"], view[i]["Prioridad"]>>]

UpdateTraces(traces, view) ==
    [n \in 1..Len(traces) |->
        [traces[n] EXCEPT !.textposition = "inside",
                          !.customdata = TraceCustomdata(view, traces[n])]]

CustomLayout(k) ==
    [title |-> <<"Gantt Chart para ", k, " (por Persona)">>,
     categoryorder |-> "total ascending",
     hovermode |-> "closest",
     xaxis_title |-> "Tiempo",
     yaxis_title |-> "Persona Asignada",
     legend_title |-> "Prioridad",
     margin |-> [l |-> 0, r |-> 0, t |-> 50, b |-> 0]]

\* px.timeline: without x_start and x_end it raises ValueError.
PxTimeline(view, x_start, x_end, colors) ==
    IF x_start = None \/ x_end = None
    THEN RaisedError("ValueError")
    ELSE [kind |-> "figure", traces |-> PxTraces(view, colors)]

\* Lines 79-104.
Figure(view, k, colors) ==
    LET fig == PxTimeline(view, "Start", "Finish", colors)
    IN  [kind |-> "figure",
         traces |-> UpdateTraces(fig.traces, view),
         layout |-> CustomLayout(k)]

\* What the callback returns or raises.
CallbackResult(table, k, colors) ==
    IF Falsy(k) THEN PxTimeline(<<>>, None, None, colors)
    ELSE IF "EQUIPO" \notin table.columns THEN RaisedError("KeyError")
    ELSE Figure(FilteredDf(table, k), k, colors)

\* The data frame handed to px.timeline.
CallbackView(table, k) ==
    IF Falsy(k) \/ "EQUIPO" \notin table.columns THEN <<>>
    ELSE FilteredDf(table, k)

Remember(m, k, res, view, n) ==
    IF m[k] = NoResult
    THEN [m EXCEPT ![k] = [kind |-> "call", result |-> res, view |-> view, at |-> n]]
    ELSE m

\* `if not selected_equipment: return px.timeline(...)`
UpdateEmptySelection(k) ==
    /\ pc = "running"
    /\ ncalls < MaxCalls
    /\ Falsy(k)
    /\ selected_equipment' = k
    /\ filtered_df' = CallbackView(df, k)
    /\ result' = CallbackResult(df, k, prioridad_colors)
    /\ memo' = Remember(memo, k, CallbackResult(df, k, prioridad_colors),
                        CallbackView(df, k), ncalls + 1)
    /\ ncalls' = ncalls + 1
    /\ UNCHANGED <<file, pc, error, df, prioridad_colors, unique_equipos,
                   options, value>>

UpdateSelection(k) ==
    /\ pc = "running"
    /\ ncalls < MaxCalls
    /\ ~Falsy(k)
    /\ selected_equipment' = k
    /\ filtered_df' = CallbackView(df, k)
    /\ result' = CallbackResult(df, k, prioridad_colors)
    /\ memo' = Remember(memo, k, CallbackResult(df, k, prioridad_colors),
                        CallbackView(df, k), ncalls + 1)
    /\ ncalls' = ncalls + 1
    /\ df' = DfAfterUpdate(df, k)
    /\ UNCHANGED <<file, pc, error, prioridad_colors, unique_equipos,
                   options, value>>

update_gantt_chart == \E k \in Keys : UpdateEmptySelection(k) \/ UpdateSelection(k)

Next ==
    \/ LoadOk
    \/ LoadMissing
    \/ LoadMalformed
    \/ LayoutOk
    \/ LayoutKeyError
    \/ update_gantt_chart

Spec == Init /\ [][Next]_vars

(***************************************************************************)
(* Properties.                                                             *)
(***************************************************************************)
Called == pc = "running" /\ ncalls > 0

ZeroBars(res) ==
    /\ res.kind = "figure"
    /\ \A n \in 1..Len(res.traces) : Len(res.traces[n].bars) = 0

\* The position in the table of the row a view record comes from.
SrcPos(r) ==
    CHOOSE n \in 1..Len(df.rows) : df.rows[n]["ACTIVIDAD A EJECUTAR"] = r["Task"]

SameSortKey(a, b) == a["Resource"] = b["Resource"] /\ a["Start"] = b["Start"]

\* C1: when the input file does not exist, startup neither crashes nor
\* lets an error propagate; it ends with an empty dropdown and no selection.
C1_MissingFileStartupCompletes ==
    ~file.exists =>
        /\ pc # "crashed"
        /\ error = "none"
        /\ (pc = "running" => options = <<>> /\ value = None)

\* C2: for a key present in the table, the filtered view holds only
\* records of that equipment, and as many as the table has rows of it.
C2_FilterExactAndComplete ==
    (/\ Called
     /\ ~Falsy(selected_equipment)
     /\ \E n \in 1..Len(df.rows) : df.rows[n]["EQUIPO"] = selected_equipment)
    =>
        /\ \A i \in 1..Len(filtered_df) :
              filtered_df[i]["EQUIPO"] = selected_equipment
        /\ Len(filtered_df) =
              Cardinality({n \in 1..Len(df.rows) :
                              df.rows[n]["EQUIPO"] = selected_equipment})

C2_Witness ==
    /\ Called
    /\ selected_equipment = "A"
    /\ Len(df.rows) = 2
    /\ df.rows[1]["EQUIPO"] = "a"
    /\ df.rows[2]["EQUIPO"] = "A"
    /\ Len(filtered_df) = 1
    /\ filtered_df[1]["Task"] = "Repair"

\* C3: for a non-empty key the filtered view is sorted ascending by
\* (Resource, Start), records of equal Resource and Start keep the order
\* they have in the table, and the rows Bob/Inspect, Ann/Repair of
\* equipment A come out as Ann/Repair, Bob/Inspect.
C3_SortedStable ==
    (Called /\ ~Falsy(selected_equipment)) =>
        /\ \A i, j \in 1..Len(filtered_df) :
              i < j =>
                /\ \/ StrRank[filtered_df[i]["Resource"]] <
                          StrRank[filtered_df[j]["Resource"]]
                   \/ /\ filtered_df[i]["Resource"] = filtered_df[j]["Resource"]
                      /\ filtered_df[i]["Start"] <= filtered_df[j]["Start"]
                /\ SameSortKey(filtered_df[i], filtered_df[j]) =>
                      SrcPos(filtered_df[i]) < SrcPos(filtered_df[j])
        /\ (/\ selected_equipment = "A"
            /\ Len(df.rows) = 2
            /\ \A n \in 1..2 : df.rows[n]["EQUIPO"] = "A"
            /\ df.rows[1]["PERSONA ASIGNADA A LA ACTIVIDAD"] = "Bob"
            /\ df.rows[2]["PERSONA ASIGNADA A LA ACTIVIDAD"] = "Ann")
           => Column(filtered_df, "Task") = <<"Repair", "Inspect">>

C3_Witness ==
    /\ Called
    /\ selected_equipment = "A"
    /\ Len(filtered_df) = 2
    /\ SameSortKey(filtered_df[1], filtered_df[2])
    /\ filtered_df[1]["Task"] = "Inspect"
    /\ filtered_df[2]["Task"] = "Repair"

\* C4: for an empty or null key the callback returns a figure with zero
\* bars and raises no error.
C4_EmptySelectionZeroBars ==
    (Called /\ Falsy(selected_equipment)) => ZeroBars(result)

\* C5: for a non-empty key that matches no row the filtered view is empty
\* and the callback returns a figure with zero bars without raising, which
\* is also the outcome of an empty selection.
C5_UnknownKeyAsEmptySelection ==
    \A k \in Keys :
        (/\ pc = "running"
         /\ memo[k].kind = "call"
         /\ ~Falsy(k)
         /\ \A n \in 1..Len(df.rows) : df.rows[n]["EQUIPO"] # k)
        =>
            /\ memo[k].view = <<>>
            /\ ZeroBars(memo[k].result)
            /\ \A e \in Keys :
                  (Falsy(e) /\ memo[e].kind = "call") =>
                      /\ memo[e].result.kind = memo[k].result.kind
                      /\ ZeroBars(memo[e].result)

\* The tooltip of the i-th bar of a trace.  The template binds Task to
\* %{text}, Person to %{y}, Start to %{x}, and Finish and Priority to the
\* i-th entry of customdata.  On the date axis %{x} of a bar with a base is
\* the bar's end, base + x.
Hover(trace, i) ==
    [task |-> trace.bars[i].text,
     resource |-> trace.bars[i].y,
     start |-> trace.bars[i].base + (trace.bars[i].x \div 60000),
     finish |-> trace.customdata[i][1],
     priority |-> trace.customdata[i][2]]

RecordHover(r) ==
    [task |-> r["Task"], resource |-> r["Resource"], start |-> r["Start"],
     finish |-> r["Finish"], priority |-> r["Prioridad"]]

\* C6: every bar of the figure returned for a non-empty key shows in its
\* tooltip the task, resource, start, finish and priority of the record
\* the bar represents, also when the view has more than one priority.
C6_HoverMatchesRecord ==
    (Called /\ ~Falsy(selected_equipment) /\ result.kind = "figure") =>
        \A n \in 1..Len(result.traces) :
            \A i \in 1..Len(result.traces[n].bars) :
                \E m \in 1..Len(filtered_df) :
                    /\ filtered_df[m]["Task"] = result.traces[n].bars[i].text
                    /\ Hover(result.traces[n], i) = RecordHover(filtered_df[m])

AxisConventions(layout) ==
    [xaxis_title |-> layout.xaxis_title,
     yaxis_title |-> layout.yaxis_title,
     categoryorder |-> layout.categoryorder,
     hovermode |-> layout.hovermode,
     legend_title |-> layout.legend_title,
     margin |-> layout.margin]

\* C7: the figure returned for an empty or null key has the axis titles,
\* the category order and the layout settings of the figure returned for
\* a selected key.
C7_EmptySelectionSameAxes ==
    \A e, k \in Keys :
        (/\ pc = "running"
         /\ Falsy(e) /\ memo[e].kind = "call"
         /\ ~Falsy(k) /\ memo[k].kind = "call"
         /\ memo[k].result.kind = "figure")
        =>
            /\ memo[e].result.kind = "figure"
            /\ "layout" \in DOMAIN memo[e].result
            /\ AxisConventions(memo[e].result.layout) =
                   AxisConventions(memo[k].result.layout)

\* The first row of the table holding equipment x.
FirstRowOf(x) ==
    CHOOSE n \in 1..Len(df.rows) :
        /\ df.rows[n]["EQUIPO"] = x
        /\ \A m \in 1..(n - 1) : df.rows[m]["EQUIPO"] # x

\* C8: the dropdown options are the distinct non-null equipment
\* identifiers of the table, each once, in order of first occurrence, and
\* the initial value is the first of them, or None when there is none.
C8_SelectorOptions ==
    pc = "running" =>
        /\ \A i \in 1..Len(options) : options[i].label = options[i].value
        /\ {options[i].value : i \in 1..Len(options)} =
               {df.rows[n]["EQUIPO"] : n \in 1..Len(df.rows)} \ {NaN}
        /\ \A i, j \in 1..Len(options) :
               i < j =>
                 /\ options[i].value # options[j].value
                 /\ FirstRowOf(options[i].value) < FirstRowOf(options[j].value)
        /\ value = IF Len(options) > 0 THEN options[1].value ELSE None

C8_Witness ==
    /\ pc = "running"
    /\ Len(df.rows) = 2
    /\ df.rows[1]["EQUIPO"] = NaN
    /\ df.rows[2]["EQUIPO"] = "a"
    /\ options = <<[label |-> "a", value |-> "a"]>>
    /\ value = "a"

\* C9: once startup has ended, no selection event changes the table or
\* the colour map.
C9_TableNeverMutated ==
    [][pc = "running" =>
          (df' = df /\ prioridad_colors' = prioridad_colors)]_vars

C9_Witness ==
    /\ Called
    /\ ncalls >= 2
    /\ selected_equipment = "A"
    /\ Len(df.rows) = 2
    /\ Len(filtered_df) = 1
    /\ \E k \in Keys : Falsy(k) /\ memo[k].kind = "call"

\* C10: a call returns the filtered view and the result that the first
\* call with the same key returned, whatever calls came in between.
C10_Deterministic ==
    Called =>
        /\ memo[selected_equipment].kind = "call"
        /\ result = memo[selected_equipment].result
        /\ filtered_df = memo[selected_equipment].view

C10_Witness ==
    /\ Called
    /\ ncalls = 3
    /\ selected_equipment = "A"
    /\ memo["A"].kind = "call" /\ memo["A"].at = 1
    /\ memo["a"].kind = "call" /\ memo["a"].at = 2
    /\ Len(filtered_df) = 1
    /\ Len(memo["a"].view) = 1
====
